---- MODULE Spec2Model ----
(***************************************************************************)
(* Model of xchainer/check_backward.cc: the gradient-verification harness. *)
(* The harness is sequential; its control state is a call stack of frames, *)
(* one per active function of check_backward.cc.  Arrays are handles to    *)
(* array bodies kept in a heap; the user function, the backward engine,    *)
(* the numerical estimator and the leak tracker are collaborators whose    *)
(* outcomes are chosen nondeterministically inside their interface.        *)
(***************************************************************************)
EXTENDS Integers, Sequences, FiniteSets, TLC

VARIABLES heap, stack, err, ret, trace, obs, tracker, call

vars == <<heap, stack, err, ret, trace, obs, tracker, call>>

(* ------------------------------ bounds --------------------------------- *)
MaxInputs == 2
MaxOutputs == 2

(* ---------------------------- vocabulary ------------------------------- *)
Graphs == {"g", "h"}
\* the graph identifier a check runs under (actual_graph_id)
actual_graph_id == "g"
Shapes == {"s1", "s2"}
Dtypes == {"f32", "f64"}

NoErr == [kind |-> "none", msg |-> "none", at |-> <<>>]
GradientCheckError(m, idx) == [kind |-> "GradientCheckError", msg |-> m, at |-> idx]
\* mutant: one exception type for everything
XchainerError_asCheckError(m, idx) == [kind |-> "GradientCheckError", msg |-> m, at |-> idx]

XchainerError(m, idx) == [kind |-> "XchainerError", msg |-> m, at |-> idx]

Range(s) == {s[i] : i \in DOMAIN s}

RECURSIVE SetToSeq(_)
SetToSeq(S) ==
  IF S = {} THEN <<>>
  ELSE LET m == CHOOSE a \in S : \A b \in S : a <= b
       IN <<m>> \o SetToSeq(S \ {m})

(* --------------------------- array bodies ------------------------------ *)
\* An array body: per graph a node ("none", "leaf" or "op": produced by an
\* operation) and a gradient slot (a body id, 0 when empty); prev are the
\* bodies the producing operation read (the backward edges under the
\* checked graph).
NewBody(tag, shape, dtype) ==
  [node |-> [x \in Graphs |-> "none"], grad |-> [x \in Graphs |-> 0],
   prev |-> {}, shape |-> shape, dtype |-> dtype, tag |-> tag, acc |-> FALSE]

HasArrayNode(h, a, x) == h[a].node[x] # "none"
IsLeafNode(h, a, x) == h[a].node[x] = "leaf"
HasNextOpNode(h, a, x) == h[a].node[x] = "op"
IsGradRequired(h, a, x) == HasArrayNode(h, a, x)
GetGrad(h, a, x) == h[a].grad[x]
SetGrad(h, a, g, x) == [h EXCEPT ![a].grad[x] = g]
ClearGrad(h, a, x) == [h EXCEPT ![a].grad[x] = 0]
RequireGrad(b, x) == IF b.node[x] = "none" THEN [b EXCEPT !.node[x] = "leaf"] ELSE b
AsGradStopped(b) ==
  [b EXCEPT !.node = [x \in Graphs |-> "none"], !.grad = [x \in Graphs |-> 0],
            !.prev = {}, !.tag = "view", !.acc = FALSE]

\* the graph ids of the nodes a body carries (ArrayBody::nodes())
Nodes(b) == {x \in Graphs : b.node[x] # "none"}

(* ----------------------- Graph Isolation ------------------------------- *)
RECURSIVE RequireGradEach(_, _)
RequireGradEach(b, S) ==
  IF S = {} THEN b
  ELSE LET x == CHOOSE y \in S : TRUE
       IN RequireGradEach(RequireGrad(b, x), S \ {x})

\* mutant: the view keeps the nodes of the original, its history included
DisconnectOne_keepsHistory(b) ==
  [b EXCEPT !.grad = [x \in Graphs |-> 0], !.tag = "view", !.acc = FALSE]

\* one iteration of the loop: a grad-stopped view with RequireGrad() called
\* for every graph id the original carries a node of
DisconnectOne(b) == RequireGradEach(AsGradStopped(b), Nodes(b))

\* mutant: gradient tracking is reset on the caller's own bodies
DisconnectInputArrays_inPlace(h, inputs) ==
  [heap |-> [id \in DOMAIN h |-> IF id \in Range(inputs) THEN DisconnectOne(h[id]) ELSE h[id]],
   arrays |-> inputs]


\* the new heap and the handles of the views, in input order
DisconnectInputArrays(h, inputs) ==
  [heap |-> h \o [i \in 1..Len(inputs) |-> DisconnectOne(h[inputs[i]])],
   arrays |-> [i \in 1..Len(inputs) |-> Len(h) + i]]

(* ------------------------------ frames --------------------------------- *)
NoSeeds == [has |-> FALSE, arr |-> <<>>]
SomeSeeds(s) == [has |-> TRUE, arr |-> s]

Frame(proc, pc, func, inputs, seeds, mode, base) ==
  [proc |-> proc, pc |-> pc, func |-> func, inputs |-> inputs, seeds |-> seeds,
   mode |-> mode, outputs |-> <<>>, grads |-> <<>>, close |-> <<>>,
   fail |-> <<>>, base |-> base, scoped |-> FALSE, gg |-> <<>>, nin |-> 0]

Top == stack[Len(stack)]
Depth == Len(stack)
SetTop(f) == [stack EXCEPT ![Len(stack)] = f]
Pop == SubSeq(stack, 1, Len(stack) - 1)
Running(proc, pc) ==
  /\ err = NoErr
  /\ stack # <<>>
  /\ Top.proc = proc
  /\ Top.pc = pc
At(pc) == [Top EXCEPT !.pc = pc]
\* trace: the steps taken, each with the depth of the frame that took it;
\* obs: the arguments and results of the steps of the extraction in progress
Event(e) == [ev |-> e, d |-> Depth]
Log(e) == Append(trace, Event(e))
NoObs == [outputs |-> <<>>, seeded |-> {}, outs |-> <<>>, grads |-> <<>>]

(* ------------------- collaborators: user function ---------------------- *)
\* What a call of the function under test may do: return nout outputs, the
\* first of them possibly the handle of input number alias; connect its
\* fresh outputs to the graphs of its inputs (conn); leave gradients on its
\* inputs by running backward inside itself (leaves); keep a reference to a
\* body it allocated (keep).
FuncBehaviours(n) ==
  {b \in [nout : 1..MaxOutputs, conn : BOOLEAN, leaves : BOOLEAN,
          alias : 0..n, keep : BOOLEAN] :
      /\ b.leaves => b.conn
      /\ b.keep => (b.conn /\ ~b.leaves /\ b.alias = 0)}

OutBody(h, inputs, beh) ==
  LET b == NewBody("out", "s1", "f32")
      nd == [x \in Graphs |->
               IF beh.conn /\ \E i \in DOMAIN inputs : HasArrayNode(h, inputs[i], x)
               THEN "op" ELSE "none"]
  IN [b EXCEPT !.node = nd,
               !.prev = IF nd[actual_graph_id] = "op"
                        THEN {inputs[i] : i \in {k \in DOMAIN inputs :
                                   HasArrayNode(h, inputs[k], actual_graph_id)}}
                        ELSE {}]

UserFunc(h, inputs, beh) ==
  LET a == IF beh.alias # 0 THEN 1 ELSE 0
      nf == beh.nout - a
      h1 == h \o [k \in 1..nf |-> OutBody(h, inputs, beh)]
      outs == [j \in 1..beh.nout |->
                 IF j = 1 /\ beh.alias # 0 THEN inputs[beh.alias]
                 ELSE Len(h) + j - a]
      L == IF beh.leaves
           THEN SetToSeq({inputs[i] : i \in {k \in DOMAIN inputs :
                                IsGradRequired(h, inputs[k], actual_graph_id)}})
           ELSE <<>>
      h2 == [id \in 1..(Len(h1) + Len(L)) |->
               IF id > Len(h1) THEN NewBody("left", "s1", "f32")
               ELSE IF \E k \in DOMAIN L : L[k] = id
                    THEN [h1[id] EXCEPT !.grad[actual_graph_id] =
                            Len(h1) + (CHOOSE k \in DOMAIN L : L[k] = id)]
                    ELSE h1[id]]
  IN [heap |-> h2, outputs |-> outs, kept |-> IF beh.keep /\ nf > 0 THEN 1 ELSE 0]

\* nonlinear_func: every output of func multiplied by itself
SquareBody(h, o) ==
  LET b == NewBody("sq", h[o].shape, h[o].dtype)
  IN [b EXCEPT !.node = [x \in Graphs |-> IF HasArrayNode(h, o, x) THEN "op" ELSE "none"],
               !.prev = IF HasArrayNode(h, o, actual_graph_id) THEN {o} ELSE {}]

NonlinearFunc(h, inputs, beh) ==
  LET r == UserFunc(h, inputs, beh)
      h1 == r.heap \o [j \in 1..Len(r.outputs) |-> SquareBody(r.heap, r.outputs[j])]
  IN [heap |-> h1,
      outputs |-> [j \in 1..Len(r.outputs) |-> Len(r.heap) + j],
      kept |-> r.kept]

(* ------------------- collaborators: backward engine -------------------- *)
RECURSIVE Reach(_, _)
Reach(h, S) ==
  LET T == S \cup UNION {h[b].prev : b \in S}
  IN IF T = S THEN S ELSE Reach(h, T)

ReachableLeaves(h, outs, x) == {b \in Reach(h, Range(outs)) : h[b].node[x] = "leaf"}

\* What the engine does for one reachable leaf: no gradient, or a gradient
\* that is (conn) or is not itself connected to the graph.  The shape, dtype
\* and elements of a gradient are the engine's too; an array's metadata and
\* data do not change once it exists, so the model draws them where the
\* harness first reads them (ReadMeta; AllClose reads the elements).
NoGrad == [present |-> FALSE, conn |-> FALSE]
GradChoices == {NoGrad} \cup [present : {TRUE}, conn : BOOLEAN]

\* the seed gradients set on the outputs that are themselves part of the graph
SeedBodies(h, outs, x) ==
  {h[o].grad[x] : o \in {p \in Range(outs) : h[p].grad[x] # 0
                                   /\ HasArrayNode(h, h[p].grad[x], x)}}

GradBody(h, l, c, outs, x) ==
  LET b == NewBody("grad", "unread", "unread")
  IN [b EXCEPT !.node[x] = IF c.conn THEN "op" ELSE "none",
               !.prev = IF c.conn
                        THEN ReachableLeaves(h, outs, x) \cup SeedBodies(h, outs, x)
                        ELSE {},
               !.acc = h[l].grad[x] # 0]

RECURSIVE BackwardEach(_, _, _, _, _, _)
BackwardEach(h0, h, L, pick, outs, x) ==
  IF L = <<>> THEN h
  ELSE LET l == Head(L)
           c == pick[l]
       IN IF c.present
          THEN BackwardEach(h0,
                 Append([h EXCEPT ![l].grad[x] = Len(h) + 1], GradBody(h0, l, c, outs, x)),
                 Tail(L), pick, outs, x)
          ELSE BackwardEach(h0, h, Tail(L), pick, outs, x)

\* Backward(outputs, graph_id, double_backprop): writes the gradient slots of
\* the leaves reachable from the outputs; pick is what the engine computes.
Backward(h, outs, x, pick) ==
  BackwardEach(h, h, SetToSeq(ReachableLeaves(h, outs, x)), pick, outs, x)

(* -------------------- Backward Gradient Extraction --------------------- *)
\* mutant: the test on next_op_node() inverted
NonLeafInputs_inverted(h, inputs, x) ==
  {i \in DOMAIN inputs : HasArrayNode(h, inputs[i], x) /\ ~HasNextOpNode(h, inputs[i], x)}

NonLeafInputs(h, inputs, x) ==
  {i \in DOMAIN inputs : HasArrayNode(h, inputs[i], x) /\ HasNextOpNode(h, inputs[i], x)}

BG_CheckLeaves ==
  /\ Running("BackwardGradients", "leaf")
  /\ IF NonLeafInputs(heap, Top.inputs, actual_graph_id) # {}
     THEN /\ err' = GradientCheckError("inputs must be leaf nodes", <<>>)
          /\ UNCHANGED stack
     ELSE /\ stack' = SetTop(At("forward"))
          /\ UNCHANGED err
  /\ UNCHANGED <<obs, heap, ret, trace, tracker, call>>

BG_Forward ==
  /\ Running("BackwardGradients", "forward")
  /\ Top.func \in {"user", "nonlinear"}
  /\ \E beh \in FuncBehaviours(Len(Top.inputs)) :
       LET r == IF Top.func = "user" THEN UserFunc(heap, Top.inputs, beh)
                ELSE NonlinearFunc(heap, Top.inputs, beh)
       IN /\ heap' = r.heap
          /\ stack' = SetTop([At("alias") EXCEPT !.outputs = r.outputs])
          /\ tracker' = IF tracker.open
                        THEN [tracker EXCEPT !.kept = @ + r.kept] ELSE tracker
          /\ obs' = [NoObs EXCEPT !.outputs = r.outputs]
  /\ trace' = Log("forward")
  /\ UNCHANGED <<err, ret, call>>

\* mutant: input i compared with output i only
AliasedPairs_sameIndex(h, inputs, outputs, x) ==
  {p \in (DOMAIN inputs) \X (DOMAIN outputs) :
      p[1] = p[2] /\ inputs[p[1]] = outputs[p[2]] /\ IsGradRequired(h, inputs[p[1]], x)}

AliasedPairs(h, inputs, outputs, x) ==
  {p \in (DOMAIN inputs) \X (DOMAIN outputs) :
      inputs[p[1]] = outputs[p[2]] /\ IsGradRequired(h, inputs[p[1]], x)}

FirstPair(P) ==
  CHOOSE p \in P : \A q \in P : p[1] < q[1] \/ (p[1] = q[1] /\ p[2] <= q[2])

BG_CheckIdentical ==
  /\ Running("BackwardGradients", "alias")
  /\ LET P == AliasedPairs(heap, Top.inputs, Top.outputs, actual_graph_id)
     IN IF P # {}
        THEN /\ err' = GradientCheckError("input and output are identical", FirstPair(P))
             /\ UNCHANGED stack
        ELSE /\ stack' = SetTop(At("size"))
             /\ UNCHANGED err
  /\ UNCHANGED <<obs, heap, ret, trace, tracker, call>>

BG_CheckSize ==
  /\ Running("BackwardGradients", "size")
  /\ IF Top.seeds.has /\ Len(Top.outputs) # Len(Top.seeds.arr)
     THEN /\ err' = GradientCheckError("size of grad outputs must be same",
                                       <<Len(Top.outputs), Len(Top.seeds.arr)>>)
          /\ UNCHANGED stack
     ELSE /\ stack' = SetTop(At(IF Top.seeds.has THEN "seed" ELSE "clear"))
          /\ UNCHANGED err
  /\ UNCHANGED <<obs, heap, ret, trace, tracker, call>>

SeededOutputs(h, outputs, x) == {i \in DOMAIN outputs : IsGradRequired(h, outputs[i], x)}

SeedGrads(h, outputs, seeds, x) ==
  [id \in DOMAIN h |->
     LET I == {i \in SeededOutputs(h, outputs, x) : outputs[i] = id}
     IN IF I = {} THEN h[id]
        ELSE [h[id] EXCEPT !.grad[x] = seeds[CHOOSE i \in I : \A k \in I : k <= i]]]

BG_SeedGrads ==
  /\ Running("BackwardGradients", "seed")
  /\ heap' = SeedGrads(heap, Top.outputs, Top.seeds.arr, actual_graph_id)
  /\ stack' = SetTop(At("clear"))
  /\ trace' = Log("seed")
  /\ obs' = [obs EXCEPT !.seeded = SeededOutputs(heap, Top.outputs, actual_graph_id)]
  /\ UNCHANGED <<err, ret, tracker, call>>

\* mutant: the gradients of the inputs are not cleared
ClearGrads_skipped(h, inputs, x) == h

ClearGrads(h, inputs, x) ==
  [id \in DOMAIN h |->
     IF \E i \in DOMAIN inputs : inputs[i] = id /\ IsGradRequired(h, id, x)
     THEN [h[id] EXCEPT !.grad[x] = 0] ELSE h[id]]

BG_ClearGrads ==
  /\ Running("BackwardGradients", "clear")
  /\ heap' = ClearGrads(heap, Top.inputs, actual_graph_id)
  /\ stack' = SetTop(At("backward"))
  /\ trace' = Log("clear")
  /\ UNCHANGED <<obs, err, ret, tracker, call>>

OutputsRequiringGrad(h, outputs, x) ==
  LET I == SetToSeq({i \in DOMAIN outputs : IsGradRequired(h, outputs[i], x)})
  IN [k \in DOMAIN I |-> outputs[I[k]]]

BG_Backward ==
  /\ Running("BackwardGradients", "backward")
  /\ LET outs == OutputsRequiringGrad(heap, Top.outputs, actual_graph_id)
     IN /\ \E pick \in [ReachableLeaves(heap, outs, actual_graph_id) -> GradChoices] :
             heap' = Backward(heap, outs, actual_graph_id, pick)
        /\ trace' = Log("backward")
        /\ obs' = [obs EXCEPT !.outs = outs]
  /\ stack' = SetTop(At("harvest"))
  /\ UNCHANGED <<err, ret, tracker, call>>

BackwardGrads(h, inputs, x) ==
  [i \in DOMAIN inputs |->
     IF ~IsGradRequired(h, inputs[i], x) THEN 0 ELSE GetGrad(h, inputs[i], x)]

BG_Harvest ==
  /\ Running("BackwardGradients", "harvest")
  /\ ret' = BackwardGrads(heap, Top.inputs, actual_graph_id)
  /\ stack' = Pop
  /\ trace' = Log("harvest")
  /\ obs' = [obs EXCEPT !.grads = BackwardGrads(heap, Top.inputs, actual_graph_id)]
  /\ UNCHANGED <<heap, err, tracker, call>>

(* --------------------------- exceptions -------------------------------- *)
\* A raised error unwinds one frame at a time: the frame's locals die, and a
\* live ArrayBodyLeakDetectionScope in it is destructed (the scope closes).
Unwind ==
  /\ err # NoErr
  /\ stack # <<>>
  /\ stack' = Pop
  /\ heap' = SubSeq(heap, 1, Top.base)
  /\ tracker' = IF Top.scoped THEN [tracker EXCEPT !.open = FALSE] ELSE tracker
  /\ trace' = IF Top.scoped THEN Log("close") ELSE trace
  /\ UNCHANGED <<obs, err, ret, call>>

(* ------------------------- initial states ------------------------------ *)
\* an original that is part of the checked graph already holds a gradient
OrigKinds ==
  {k \in [g : {"none", "leaf", "op"}, h : {"none", "leaf"}, hasgrad : BOOLEAN] :
      k.hasgrad <=> k.g # "none"}

OrigBody(k) ==
  [NewBody("orig", "s1", "f32") EXCEPT !.node = [x \in Graphs |-> IF x = "g" THEN k.g ELSE k.h]]

SeedBody(conn) ==
  [NewBody("seed", "s1", "f32") EXCEPT
      !.node[actual_graph_id] = IF conn THEN "leaf" ELSE "none"]

\* originals at 1..Len(kinds), then the seed arrays, then the gradients the
\* originals already hold
InitHeap(kinds, seedconn) ==
  LET n == Len(kinds)
      b0 == [i \in 1..n |-> OrigBody(kinds[i])] \o
            [k \in 1..Len(seedconn) |-> SeedBody(seedconn[k])]
      G == SetToSeq({i \in 1..n : kinds[i].hasgrad})
  IN [id \in 1..(Len(b0) + Len(G)) |->
        IF id > Len(b0) THEN NewBody("origgrad", "s1", "f32")
        ELSE IF id <= n /\ kinds[id].hasgrad
             THEN [b0[id] EXCEPT !.grad[actual_graph_id] =
                     Len(b0) + (CHOOSE k \in DOMAIN G : G[k] = id)]
             ELSE b0[id]]

InputKinds == UNION {[1..n -> OrigKinds] : n \in 1..MaxInputs}
NoTracker == [open |-> FALSE, base |-> 0, kept |-> 0]

\* BackwardGradients called directly, with any inputs, seeds and mode
InitBG ==
  /\ \E kinds \in InputKinds, ns \in 0..MaxOutputs, mode \in {"enable", "disable"} :
       /\ heap = InitHeap(kinds, [k \in 1..ns |-> FALSE])
       /\ \E has \in {ns > 0, TRUE} :
            stack = <<Frame("BackwardGradients", "leaf", "user",
                           [i \in 1..Len(kinds) |-> i],
                           IF has THEN SomeSeeds([k \in 1..ns |-> Len(kinds) + k])
                           ELSE NoSeeds,
                           mode, Len(kinds) + ns + Cardinality({i \in 1..Len(kinds) : kinds[i].hasgrad}))>>
  /\ err = NoErr
  /\ ret = <<>>
  /\ trace = <<>>
  /\ tracker = NoTracker
  /\ obs = NoObs
  /\ call = [proc |-> "BackwardGradients", inputs |-> stack[1].inputs,
             seeds |-> stack[1].seeds, gg |-> <<>>]

NextBG ==
  \/ BG_CheckLeaves
  \/ BG_Forward
  \/ BG_CheckIdentical
  \/ BG_CheckSize
  \/ BG_SeedGrads
  \/ BG_ClearGrads
  \/ BG_Backward
  \/ BG_Harvest
  \/ Unwind

SpecBG == InitBG /\ [][NextBG]_vars


(* ---------------- Double-Backprop Toggle Verification ------------------ *)
ScanPc(m) == IF m = "disable" THEN "disable_scan" ELSE "enable_scan"
AfterScanPc(m) == IF m = "disable" THEN "enable" ELSE "finish"

\* lines 122-124 and 138-140: fresh views, then extraction on them with the
\* nonlinear wrapper and no seeds
DBO_Run(m) ==
  /\ Running("CheckDoubleBackpropOption", m)
  /\ LET d == DisconnectInputArrays(heap, Top.inputs)
     IN /\ heap' = d.heap
        /\ stack' = Append(SetTop(At(ScanPc(m))),
                           Frame("BackwardGradients", "leaf", "nonlinear", d.arrays,
                                 NoSeeds, m, Len(d.heap)))
        /\ trace' = Log("isolate")
  /\ UNCHANGED <<obs, err, ret, tracker, call>>

\* the gradients the scan of run m reports (1-based positions in grads)
ToggleFailures(h, grads, m, x) ==
  {i \in DOMAIN grads :
      /\ grads[i] # 0
      /\ IF m = "disable" THEN IsGradRequired(h, grads[i], x)
         ELSE ~IsGradRequired(h, grads[i], x)}

\* mutant: the scan stops at the first gradient it reports
FailureEntries_firstOnly(h, grads, m, x) ==
  LET F == SetToSeq(ToggleFailures(h, grads, m, x))
  IN IF F = <<>> THEN <<>> ELSE <<[run |-> m, i |-> F[1] - 1, of |-> Len(grads)]>>


FailureEntries(h, grads, m, x) ==
  LET F == SetToSeq(ToggleFailures(h, grads, m, x))
  IN [k \in DOMAIN F |-> [run |-> m, i |-> F[k] - 1, of |-> Len(grads)]]

\* lines 126-134 and 142-150: the scan, then the block ends and its locals die
DBO_Scan(m) ==
  /\ Running("CheckDoubleBackpropOption", ScanPc(m))
  /\ stack' = SetTop([At(AfterScanPc(m)) EXCEPT
                        !.fail = @ \o FailureEntries(heap, ret, m, actual_graph_id)])
  /\ heap' = SubSeq(heap, 1, Top.base)
  /\ ret' = <<>>
  /\ obs' = NoObs
  /\ trace' = Log("scan")
  /\ UNCHANGED <<err, tracker, call>>

\* lines 152-156
DBO_Finish ==
  /\ Running("CheckDoubleBackpropOption", "finish")
  /\ IF Top.fail # <<>>
     THEN /\ err' = GradientCheckError("double backprop option", Top.fail)
          /\ UNCHANGED stack
     ELSE /\ stack' = Pop
          /\ UNCHANGED err
  /\ UNCHANGED <<obs, heap, ret, trace, tracker, call>>

(* --------------------- First-Order Gradient Check ---------------------- *)
\* lines 171-172
CBC_Extract ==
  /\ Running("CheckBackwardComputation", "extract")
  /\ LET d == DisconnectInputArrays(heap, Top.inputs)
     IN /\ heap' = d.heap
        /\ stack' = Append(SetTop(At("count")),
                           Frame("BackwardGradients", "leaf", Top.func, d.arrays,
                                 Top.seeds, "disable", Len(d.heap)))
        /\ trace' = Log("isolate")
  /\ UNCHANGED <<obs, err, ret, tracker, call>>

\* lines 173-175
CBC_CheckCount ==
  /\ Running("CheckBackwardComputation", "count")
  /\ IF Len(ret) # Len(Top.inputs)
     THEN /\ err' = GradientCheckError("number of input gradients", <<>>)
          /\ UNCHANGED stack
     ELSE /\ stack' = SetTop([At("shape") EXCEPT !.grads = ret])
          /\ UNCHANGED err
  /\ ret' = <<>>
  /\ UNCHANGED <<obs, heap, trace, tracker, call>>

Present(grads) == {i \in DOMAIN grads : grads[i] # 0}

\* the engine's shape and dtype of every gradient, as the harness reads them
ReadMeta(h, grads, meta) ==
  [id \in DOMAIN h |->
     IF \E i \in Present(grads) : grads[i] = id
     THEN LET i == CHOOSE k \in Present(grads) : grads[k] = id
          IN [h[id] EXCEPT !.shape = meta[i][1], !.dtype = meta[i][2]]
     ELSE h[id]]

ShapeMismatch(h, grads, inputs, i) == h[grads[i]].shape # h[inputs[i]].shape
DtypeMismatch(h, grads, inputs, i) == h[grads[i]].dtype # h[inputs[i]].dtype

\* the indices the loop of lines 176-203 would stop at
Mismatches(h, grads, inputs) ==
  {i \in Present(grads) :
      ShapeMismatch(h, grads, inputs, i) \/ DtypeMismatch(h, grads, inputs, i)}

\* the error of the first iteration that throws
FirstMismatchError(h, grads, inputs) ==
  LET M == Mismatches(h, grads, inputs)
      i == CHOOSE k \in M : \A j \in M : k <= j
  IN IF ShapeMismatch(h, grads, inputs, i)
     THEN GradientCheckError("shape of input gradient", <<i - 1>>)
     ELSE GradientCheckError("dtype of input gradient", <<i - 1>>)

\* lines 176-203
CBC_CheckShapes ==
  /\ Running("CheckBackwardComputation", "shape")
  /\ \E meta \in [Present(Top.grads) -> Shapes \X Dtypes] :
       LET h == ReadMeta(heap, Top.grads, meta)
       IN /\ heap' = h
          /\ IF Mismatches(h, Top.grads, Top.inputs) # {}
             THEN /\ err' = FirstMismatchError(h, Top.grads, Top.inputs)
                  /\ UNCHANGED stack
             ELSE /\ stack' = SetTop(At("numerical"))
                  /\ UNCHANGED err
  /\ UNCHANGED <<obs, ret, trace, tracker, call>>

\* lines 205-213: the estimator, on the original inputs
CBC_Numerical ==
  /\ Running("CheckBackwardComputation", "numerical")
  /\ stack' = SetTop(At("compare"))
  /\ trace' = Log("estimator")
  /\ UNCHANGED <<obs, heap, err, ret, tracker, call>>

\* mutant: an input without an analytic gradient counts as a failure
FailedInputIndices_absentFails(grads, close) ==
  {i \in DOMAIN grads : grads[i] = 0 \/ ~close[i]}


\* the indices of lines 217-224: gradients present and not all-close;
\* close[i] is what AllClose answers for index i
FailedInputIndices(grads, close) == {i \in Present(grads) : ~close[i]}

\* lines 215-224
CBC_Compare ==
  /\ Running("CheckBackwardComputation", "compare")
  /\ \E close \in [Present(Top.grads) -> BOOLEAN] :
       stack' = SetTop([At("report") EXCEPT
                   !.close = close,
                   !.fail = SetToSeq(FailedInputIndices(Top.grads, close))])
  /\ trace' = Log("allclose")
  /\ UNCHANGED <<obs, heap, err, ret, tracker, call>>

\* the index list of the report as it is printed: ", " before every index
\* but index 0
IndexTokens(failed) ==
  [k \in DOMAIN failed |-> [sep |-> (failed[k] - 1) # 0, idx |-> failed[k] - 1]]

\* lines 225-249
CBC_Report ==
  /\ Running("CheckBackwardComputation", "report")
  /\ IF Top.fail # <<>>
     THEN /\ err' = GradientCheckError("numerical error in backward", IndexTokens(Top.fail))
          /\ UNCHANGED <<stack, heap>>
          /\ UNCHANGED obs
     ELSE /\ stack' = Pop
          /\ heap' = SubSeq(heap, 1, Top.base)
          /\ obs' = NoObs
          /\ UNCHANGED err
  /\ UNCHANGED <<ret, trace, tracker, call>>

(* ------------------ Leak Detection Scope, CheckBackward ---------------- *)
\* ArrayBodyLeakTracker: the bodies allocated while its scope was open and
\* still alive: those on the heap above the scope's base, and those a
\* collaborator holds on to.
AliveBodies(t, h) == (Len(h) - t.base) + t.kept
\* mutant: the tracker never reports a surviving body
IsAllArrayBodiesFreed_always(t, h) == TRUE

IsAllArrayBodiesFreed(t, h) == AliveBodies(t, h) = 0

Block(pc) == IF pc \in {"open1", "check1", "close1", "assert1"} THEN 1 ELSE 2
PcOf(step, k) ==
  IF k = 1 THEN (CASE step = "open" -> "open1" [] step = "check" -> "check1"
                   [] step = "close" -> "close1" [] OTHER -> "assert1")
  ELSE (CASE step = "open" -> "open2" [] step = "check" -> "check2"
          [] step = "close" -> "close2" [] OTHER -> "assert2")

\* lines 277-279 and 286-288
CB_OpenScope(k) ==
  /\ Running("CheckBackward", PcOf("open", k))
  /\ tracker' = [open |-> TRUE, base |-> Len(heap), kept |-> 0]
  /\ stack' = SetTop([At(PcOf("check", k)) EXCEPT !.scoped = TRUE])
  /\ trace' = Log("open")
  /\ UNCHANGED <<obs, heap, err, ret, call>>

\* lines 280 and 289
CB_RunCheck(k) ==
  /\ Running("CheckBackward", PcOf("check", k))
  /\ stack' = Append(SetTop(At(PcOf("close", k))),
                     IF k = 1
                     THEN Frame("CheckDoubleBackpropOption", "disable", Top.func,
                                Top.inputs, NoSeeds, "", Len(heap))
                     ELSE Frame("CheckBackwardComputation", "extract", Top.func,
                                Top.inputs, Top.seeds, "", Len(heap)))
  /\ trace' = Log("check")
  /\ UNCHANGED <<obs, heap, err, ret, tracker, call>>

\* lines 281 and 290: the scope ends after the check returned
CB_CloseScope(k) ==
  /\ Running("CheckBackward", PcOf("close", k))
  /\ tracker' = [tracker EXCEPT !.open = FALSE]
  /\ stack' = SetTop([At(PcOf("assert", k)) EXCEPT !.scoped = FALSE])
  /\ trace' = Log("close")
  /\ UNCHANGED <<obs, heap, err, ret, call>>

\* lines 255-261, 282 and 291
CB_CheckAllArrayBodiesFreed(k) ==
  /\ Running("CheckBackward", PcOf("assert", k))
  /\ IF ~IsAllArrayBodiesFreed(tracker, heap)
     THEN /\ err' = GradientCheckError("array bodies not freed", <<AliveBodies(tracker, heap)>>)
          /\ UNCHANGED stack
     ELSE /\ stack' = IF k = 1 THEN SetTop(At(PcOf("open", 2))) ELSE Pop
          /\ UNCHANGED err
  /\ trace' = Log("assert")
  /\ UNCHANGED <<obs, heap, ret, tracker, call>>

\* CheckBackward called with any inputs and seeds
InitCB ==
  /\ \E kinds \in InputKinds, ns \in 1..MaxOutputs :
       /\ heap = InitHeap(kinds, [k \in 1..ns |-> FALSE])
       /\ stack = <<Frame("CheckBackward", "open1", "user",
                          [i \in 1..Len(kinds) |-> i],
                          SomeSeeds([k \in 1..ns |-> Len(kinds) + k]),
                          "", Len(heap))>>
  /\ err = NoErr
  /\ ret = <<>>
  /\ trace = <<>>
  /\ obs = NoObs
  /\ tracker = NoTracker
  /\ call = [proc |-> "CheckBackward", inputs |-> stack[1].inputs,
             seeds |-> stack[1].seeds, gg |-> <<>>]

NextCB ==
  \/ BG_CheckLeaves
  \/ BG_Forward
  \/ BG_CheckIdentical
  \/ BG_CheckSize
  \/ BG_SeedGrads
  \/ BG_ClearGrads
  \/ BG_Backward
  \/ BG_Harvest
  \/ \E m \in {"disable", "enable"} : DBO_Run(m)
  \/ \E m \in {"disable", "enable"} : DBO_Scan(m)
  \/ DBO_Finish
  \/ CBC_Extract
  \/ CBC_CheckCount
  \/ CBC_CheckShapes
  \/ CBC_Numerical
  \/ CBC_Compare
  \/ CBC_Report
  \/ \E k \in {1, 2} : CB_OpenScope(k)
  \/ \E k \in {1, 2} : CB_RunCheck(k)
  \/ \E k \in {1, 2} : CB_CloseScope(k)
  \/ \E k \in {1, 2} : CB_CheckAllArrayBodiesFreed(k)
  \/ Unwind

SpecCB == InitCB /\ [][NextCB]_vars


(* --------------------- Second-Order Gradient Check --------------------- *)
\* BackwardGradients whose func is first_order_grad_func: line 52 is a call
BG_ForwardCall ==
  /\ Running("BackwardGradients", "forward")
  /\ Top.func = "first_order"
  /\ stack' = Append(SetTop(At("forward_ret")),
                     [Frame("first_order_grad_func", "split", "user", Top.inputs,
                            NoSeeds, "", Len(heap)) EXCEPT !.nin = Top.nin])
  /\ obs' = NoObs
  /\ trace' = Log("forward")
  /\ UNCHANGED <<heap, err, ret, tracker, call>>

BG_ForwardRet ==
  /\ Running("BackwardGradients", "forward_ret")
  /\ stack' = SetTop([At("alias") EXCEPT !.outputs = ret])
  /\ obs' = [NoObs EXCEPT !.outputs = ret]
  /\ ret' = <<>>
  /\ UNCHANGED <<heap, err, trace, tracker, call>>

RequireGradAll(h, arrays, x) ==
  [id \in DOMAIN h |-> IF id \in Range(arrays) THEN RequireGrad(h[id], x) ELSE h[id]]

\* lines 333-345: split, RequireGrad on the input part, first-order extraction
FOG_Split ==
  /\ Running("first_order_grad_func", "split")
  /\ LET ins == SubSeq(Top.inputs, 1, Top.nin)
         gos == SubSeq(Top.inputs, Top.nin + 1, Len(Top.inputs))
     IN /\ heap' = RequireGradAll(heap, ins, actual_graph_id)
        /\ stack' = Append(SetTop(At("count")),
                           Frame("BackwardGradients", "leaf", Top.func, ins,
                                 SomeSeeds(gos), "enable", Len(heap)))
  /\ UNCHANGED <<obs, err, ret, trace, tracker, call>>

\* lines 347-354
FOG_CheckCount ==
  /\ Running("first_order_grad_func", "count")
  /\ IF Len(ret) # Top.nin
     THEN /\ err' = GradientCheckError("number of first-order input gradients", <<>>)
          /\ UNCHANGED stack
     ELSE /\ stack' = SetTop([At("exist") EXCEPT !.grads = ret])
          /\ UNCHANGED err
  /\ ret' = <<>>
  /\ UNCHANGED <<obs, heap, trace, tracker, call>>

MissingGrads(grads) == {i \in DOMAIN grads : grads[i] = 0}
Lowest(S) == CHOOSE i \in S : \A j \in S : i <= j

\* lines 356-360
FOG_CheckExist ==
  /\ Running("first_order_grad_func", "exist")
  /\ IF MissingGrads(Top.grads) # {}
     THEN /\ err' = GradientCheckError("first-order input gradient does not exist",
                                       <<Lowest(MissingGrads(Top.grads)) - 1>>)
          /\ UNCHANGED stack
     ELSE /\ stack' = SetTop(At("diff"))
          /\ UNCHANGED err
  /\ UNCHANGED <<obs, heap, ret, trace, tracker, call>>

\* mutant: the gradient requirement is never looked at
NotDifferentiable_unchecked(h, arrays, x) == {}


NotDifferentiable(h, arrays, x) == {i \in DOMAIN arrays : ~IsGradRequired(h, arrays[i], x)}

\* lines 362-378
FOG_CheckDifferentiable ==
  /\ Running("first_order_grad_func", "diff")
  /\ IF NotDifferentiable(heap, Top.grads, actual_graph_id) # {}
     THEN /\ err' = GradientCheckError("first-order input gradient is not differentiable",
                       <<Lowest(NotDifferentiable(heap, Top.grads, actual_graph_id)) - 1>>)
          /\ UNCHANGED <<stack, ret>>
     ELSE /\ stack' = Pop
          /\ ret' = Top.grads
          /\ UNCHANGED err
  /\ UNCHANGED <<obs, heap, trace, tracker, call>>

\* lines 310-312
Impl_CheckCount ==
  /\ Running("CheckDoubleBackwardComputationImpl", "gg_size")
  /\ IF Len(Top.gg) # Top.nin
     THEN /\ err' = XchainerError("number of input arrays and grad_grad_input arrays do not match", <<>>)
          /\ UNCHANGED stack
     ELSE /\ stack' = SetTop(At("inputs_grad"))
          /\ UNCHANGED err
  /\ UNCHANGED <<obs, heap, ret, trace, tracker, call>>

\* lines 316-321
Impl_CheckInputs ==
  /\ Running("CheckDoubleBackwardComputationImpl", "inputs_grad")
  /\ IF NotDifferentiable(heap, Top.inputs, actual_graph_id) # {}
     THEN /\ err' = XchainerError("input array is not differentiable",
                       <<Lowest(NotDifferentiable(heap, Top.inputs, actual_graph_id)) - 1>>)
          /\ UNCHANGED stack
     ELSE /\ stack' = SetTop(At("seeds_grad"))
          /\ UNCHANGED err
  /\ UNCHANGED <<obs, heap, ret, trace, tracker, call>>

\* lines 323-329
Impl_CheckGradOutputs ==
  /\ Running("CheckDoubleBackwardComputationImpl", "seeds_grad")
  /\ IF NotDifferentiable(heap, Top.seeds.arr, actual_graph_id) # {}
     THEN /\ err' = XchainerError("output gradient array is not differentiable",
                       <<Lowest(NotDifferentiable(heap, Top.seeds.arr, actual_graph_id)) - 1>>)
          /\ UNCHANGED stack
     ELSE /\ stack' = SetTop(At("numerical"))
          /\ UNCHANGED err
  /\ UNCHANGED <<obs, heap, ret, trace, tracker, call>>

\* the arrays the estimator calls the function with: copies of its inputs,
\* made with gradient tracking off
EstimatorCopies(h, arrays) ==
  [heap |-> h \o [i \in 1..Len(arrays) |-> [AsGradStopped(h[arrays[i]]) EXCEPT !.tag = "copy"]],
   arrays |-> [i \in 1..Len(arrays) |-> Len(h) + i]]

\* lines 381-390: the estimator runs first_order_grad_func
Impl_Numerical ==
  /\ Running("CheckDoubleBackwardComputationImpl", "numerical")
  /\ LET c == EstimatorCopies(heap, Top.inputs \o Top.seeds.arr)
     IN /\ heap' = c.heap
        /\ stack' = Append(SetTop(At("numerical_ret")),
                           [Frame("first_order_grad_func", "split", Top.func, c.arrays,
                                  NoSeeds, "", Len(heap)) EXCEPT !.nin = Top.nin])
  /\ trace' = Log("estimator")
  /\ UNCHANGED <<obs, err, ret, tracker, call>>

\* line 391: the estimator returns and its arrays die
Impl_NumericalRet ==
  /\ Running("CheckDoubleBackwardComputationImpl", "numerical_ret")
  /\ heap' = SubSeq(heap, 1, Top.base + Len(Top.inputs) + Len(Top.seeds.arr))
  /\ stack' = SetTop(At("backward"))
  /\ ret' = <<>>
  /\ obs' = NoObs
  /\ UNCHANGED <<err, trace, tracker, call>>

\* lines 393-396
Impl_Backward ==
  /\ Running("CheckDoubleBackwardComputationImpl", "backward")
  /\ stack' = Append(SetTop(At("missing")),
                     [Frame("BackwardGradients", "leaf", "first_order",
                            Top.inputs \o Top.seeds.arr, SomeSeeds(Top.gg), "enable",
                            Len(heap)) EXCEPT !.nin = Top.nin])
  /\ UNCHANGED <<obs, heap, err, ret, trace, tracker, call>>

\* lines 398-413: every missing second-order gradient goes into one report
Impl_CheckMissing ==
  /\ Running("CheckDoubleBackwardComputationImpl", "missing")
  /\ IF MissingGrads(ret) # {}
     THEN /\ err' = GradientCheckError("second order gradient is missing",
                       LET F == SetToSeq(MissingGrads(ret))
                       IN [k \in DOMAIN F |-> F[k] - 1])
          /\ stack' = SetTop([Top EXCEPT !.grads = ret])
     ELSE /\ stack' = SetTop([At("compare") EXCEPT !.grads = ret])
          /\ UNCHANGED err
  /\ ret' = <<>>
  /\ UNCHANGED <<obs, heap, trace, tracker, call>>

\* mutant: the comparison loop stops at the first index that fails
FailedIndices2_firstOnly(grads, close) ==
  LET F == {i \in DOMAIN grads : ~close[i]}
  IN {i \in F : \A j \in F : i <= j}


\* the indices of lines 417-421: every index is compared
FailedIndices2(grads, close) == {i \in DOMAIN grads : ~close[i]}

\* lines 415-421
Impl_Compare ==
  /\ Running("CheckDoubleBackwardComputationImpl", "compare")
  /\ \E close \in [DOMAIN Top.grads -> BOOLEAN] :
       stack' = SetTop([At("report") EXCEPT
                   !.close = close,
                   !.fail = SetToSeq(FailedIndices2(Top.grads, close))])
  /\ trace' = Log("allclose")
  /\ UNCHANGED <<obs, heap, err, ret, tracker, call>>

\* lines 423-447
Impl_Report ==
  /\ Running("CheckDoubleBackwardComputationImpl", "report")
  /\ IF Top.fail # <<>>
     THEN /\ err' = GradientCheckError("numerical error in double backward",
                                       IndexTokens(Top.fail))
          /\ UNCHANGED <<stack, heap, obs>>
     ELSE /\ stack' = Pop
          /\ heap' = SubSeq(heap, 1, Top.base)
          /\ obs' = NoObs
          /\ UNCHANGED err
  /\ UNCHANGED <<ret, trace, tracker, call>>

\* lines 460-462
CDB_OpenScope ==
  /\ Running("CheckDoubleBackwardComputation", "open")
  /\ tracker' = [open |-> TRUE, base |-> Len(heap), kept |-> 0]
  /\ stack' = SetTop([At("check") EXCEPT !.scoped = TRUE])
  /\ trace' = Log("open")
  /\ UNCHANGED <<obs, heap, err, ret, call>>

\* lines 463-464: the arguments are isolated inside the scope
CDB_RunCheck ==
  /\ Running("CheckDoubleBackwardComputation", "check")
  /\ LET d1 == DisconnectInputArrays(heap, Top.inputs)
         d2 == DisconnectInputArrays(d1.heap, Top.seeds.arr)
     IN /\ heap' = d2.heap
        /\ stack' = Append(SetTop(At("close")),
                      [Frame("CheckDoubleBackwardComputationImpl", "gg_size", Top.func,
                             d1.arrays, SomeSeeds(d2.arrays), "", Len(heap))
                         EXCEPT !.gg = Top.gg, !.nin = Len(d1.arrays)])
  /\ trace' = Log("check")
  /\ UNCHANGED <<obs, err, ret, tracker, call>>

\* line 465
CDB_CloseScope ==
  /\ Running("CheckDoubleBackwardComputation", "close")
  /\ tracker' = [tracker EXCEPT !.open = FALSE]
  /\ stack' = SetTop([At("assert") EXCEPT !.scoped = FALSE])
  /\ trace' = Log("close")
  /\ UNCHANGED <<obs, heap, err, ret, call>>

\* line 466
CDB_CheckAllArrayBodiesFreed ==
  /\ Running("CheckDoubleBackwardComputation", "assert")
  /\ IF ~IsAllArrayBodiesFreed(tracker, heap)
     THEN /\ err' = GradientCheckError("array bodies not freed", <<AliveBodies(tracker, heap)>>)
          /\ UNCHANGED stack
     ELSE /\ stack' = Pop
          /\ UNCHANGED err
  /\ trace' = Log("assert")
  /\ UNCHANGED <<obs, heap, ret, tracker, call>>

\* CheckDoubleBackwardComputation called with any inputs, first-order seeds
\* (requiring gradient or not) and any number of second-order seeds
InitCDB ==
  /\ \E kinds \in InputKinds, ns \in 1..MaxOutputs, ngg \in 1..MaxInputs :
     \E seedconn \in [1..ns -> BOOLEAN] :
       LET h0 == InitHeap(kinds, seedconn)
       IN /\ heap = h0 \o [k \in 1..ngg |-> NewBody("gg", "s1", "f32")]
          /\ stack = <<[Frame("CheckDoubleBackwardComputation", "open", "user",
                              [i \in 1..Len(kinds) |-> i],
                              SomeSeeds([k \in 1..ns |-> Len(kinds) + k]),
                              "", Len(heap))
                          EXCEPT !.gg = [k \in 1..ngg |-> Len(h0) + k]]>>
  /\ err = NoErr
  /\ ret = <<>>
  /\ trace = <<>>
  /\ obs = NoObs
  /\ tracker = NoTracker
  /\ call = [proc |-> "CheckDoubleBackwardComputation", inputs |-> stack[1].inputs,
             seeds |-> stack[1].seeds, gg |-> stack[1].gg]

NextCDB ==
  \/ BG_CheckLeaves
  \/ BG_Forward
  \/ BG_ForwardCall
  \/ BG_ForwardRet
  \/ BG_CheckIdentical
  \/ BG_CheckSize
  \/ BG_SeedGrads
  \/ BG_ClearGrads
  \/ BG_Backward
  \/ BG_Harvest
  \/ FOG_Split
  \/ FOG_CheckCount
  \/ FOG_CheckExist
  \/ FOG_CheckDifferentiable
  \/ Impl_CheckCount
  \/ Impl_CheckInputs
  \/ Impl_CheckGradOutputs
  \/ Impl_Numerical
  \/ Impl_NumericalRet
  \/ Impl_Backward
  \/ Impl_CheckMissing
  \/ Impl_Compare
  \/ Impl_Report
  \/ CDB_OpenScope
  \/ CDB_RunCheck
  \/ CDB_CloseScope
  \/ CDB_CheckAllArrayBodiesFreed
  \/ Unwind

SpecCDB == InitCDB /\ [][NextCDB]_vars

\* any of the entry points
Init == InitBG \/ InitCB \/ InitCDB
Next ==
  \/ BG_CheckLeaves
  \/ BG_Forward
  \/ BG_ForwardCall
  \/ BG_ForwardRet
  \/ BG_CheckIdentical
  \/ BG_CheckSize
  \/ BG_SeedGrads
  \/ BG_ClearGrads
  \/ BG_Backward
  \/ BG_Harvest
  \/ \E m \in {"disable", "enable"} : DBO_Run(m)
  \/ \E m \in {"disable", "enable"} : DBO_Scan(m)
  \/ DBO_Finish
  \/ CBC_Extract
  \/ CBC_CheckCount
  \/ CBC_CheckShapes
  \/ CBC_Numerical
  \/ CBC_Compare
  \/ CBC_Report
  \/ \E k \in {1, 2} : CB_OpenScope(k)
  \/ \E k \in {1, 2} : CB_RunCheck(k)
  \/ \E k \in {1, 2} : CB_CloseScope(k)
  \/ \E k \in {1, 2} : CB_CheckAllArrayBodiesFreed(k)
  \/ FOG_Split
  \/ FOG_CheckCount
  \/ FOG_CheckExist
  \/ FOG_CheckDifferentiable
  \/ Impl_CheckCount
  \/ Impl_CheckInputs
  \/ Impl_CheckGradOutputs
  \/ Impl_Numerical
  \/ Impl_NumericalRet
  \/ Impl_Backward
  \/ Impl_CheckMissing
  \/ Impl_Compare
  \/ Impl_Report
  \/ CDB_OpenScope
  \/ CDB_RunCheck
  \/ CDB_CloseScope
  \/ CDB_CheckAllArrayBodiesFreed
  \/ Unwind
Spec == Init /\ [][Next]_vars

(* ======================================================================= *)
(*                               claims                                    *)
(* ======================================================================= *)
TraceEvs == [k \in DOMAIN trace |-> trace[k].ev]
Happened(e) == \E k \in DOMAIN trace : trace[k].ev = e
DirectBG == call.proc = "BackwardGradients"
LeafError == GradientCheckError("inputs must be leaf nodes", <<>>)
IdenticalMsg == "input and output are identical"

\* C1: when BackwardGradients is called with an input that has a non-leaf
\* node under the graph id, the call raises the leaf-violation error and the
\* forward function (and every later step) is never run, whatever the other
\* inputs, the seeds and the double-backprop mode are.
C1_NonLeafInputRaisesBeforeForward ==
  (DirectBG /\ \E i \in DOMAIN call.inputs : heap[call.inputs[i]].node["g"] = "op")
    => /\ trace = <<>>
       /\ err \in {NoErr, LeafError}
       /\ stack # <<>> => Top.pc = "leaf"
       /\ stack = <<>> => err = LeafError
       /\ ret = <<>>

\* C1 witness: a finished call with seeds supplied whose first input is a
\* leaf and whose second input is a non-leaf, ended by the leaf error.
C1_Witness ==
  /\ DirectBG
  /\ stack = <<>>
  /\ err = LeafError
  /\ call.seeds.has
  /\ Len(call.inputs) = 2
  /\ heap[call.inputs[1]].node["g"] = "leaf"
  /\ heap[call.inputs[2]].node["g"] = "op"

\* the forward function has run and returned the handle of one of its inputs
\* as an output, and that input requires gradient under the graph id
ReturnedOwnInput ==
  /\ Happened("forward")
  /\ \E i \in DOMAIN call.inputs, j \in DOMAIN obs.outputs :
       /\ obs.outputs[j] = call.inputs[i]
       /\ heap[call.inputs[i]].node["g"] # "none"

\* C2: when the forward function run by BackwardGradients returns one of its
\* own input handles and that input requires gradient, the call raises the
\* identical-input-output error, whatever seeds are supplied (none, or a list
\* of any length), and neither seeding, clearing nor the backward engine runs.
C2_AliasedOutputRaisesIdentical ==
  (DirectBG /\ ReturnedOwnInput)
    => /\ TraceEvs = <<"forward">>
       /\ err # NoErr => (err.kind = "GradientCheckError" /\ err.msg = IdenticalMsg)
       /\ stack # <<>> => Top.pc = "alias"
       /\ stack = <<>> => err.msg = IdenticalMsg
       /\ ret = <<>>

\* C2 witness: the identical error raised although the seed list has the
\* wrong length, for an aliased input that is not the first one.
C2_Witness ==
  /\ DirectBG
  /\ ReturnedOwnInput
  /\ stack = <<>>
  /\ err.msg = IdenticalMsg
  /\ err.at = <<2, 1>>
  /\ call.seeds.has
  /\ Len(call.seeds.arr) # Len(obs.outputs)

RequiringGrad(s) == SelectSeq(s, LAMBDA o : heap[o].node["g"] # "none")

\* C10: a non-raising run of BackwardGradients is forward, seeding (when seeds
\* are supplied) of exactly the outputs requiring gradient, clearing of every
\* input requiring gradient, one backward call on exactly the outputs
\* requiring gradient, harvest; the result has one entry per input in input
\* order, absent for every input not requiring gradient, and no entry is or
\* accumulates a gradient that was on the input before the backward call.
C10_ExtractionOrderAndResult ==
  /\ (DirectBG /\ stack # <<>> /\ Top.pc = "backward")
       => \A i \in DOMAIN call.inputs :
            heap[call.inputs[i]].node["g"] # "none" => heap[call.inputs[i]].grad["g"] = 0
  /\ (DirectBG /\ stack = <<>> /\ err = NoErr)
       => LET outs == obs.outputs
          IN /\ TraceEvs = IF call.seeds.has
                           THEN <<"forward", "seed", "clear", "backward", "harvest">>
                           ELSE <<"forward", "clear", "backward", "harvest">>
             /\ call.seeds.has =>
                  obs.seeded = {j \in DOMAIN outs : heap[outs[j]].node["g"] # "none"}
             /\ obs.outs = RequiringGrad(outs)
             /\ ret = obs.grads
             /\ DOMAIN ret = DOMAIN call.inputs
             /\ \A i \in DOMAIN ret :
                  /\ heap[call.inputs[i]].node["g"] = "none" => ret[i] = 0
                  /\ heap[call.inputs[i]].node["g"] # "none"
                       => ret[i] = heap[call.inputs[i]].grad["g"]
                  /\ ret[i] # 0 => (heap[ret[i]].tag = "grad" /\ ~heap[ret[i]].acc)

\* C10 witness: a finished run whose forward function left gradients on its
\* inputs, with one input harvested and one input not requiring gradient.
C10_Witness ==
  /\ DirectBG
  /\ stack = <<>>
  /\ err = NoErr
  /\ \E b \in DOMAIN heap : heap[b].tag = "left"
  /\ Len(ret) = 2
  /\ ret[1] # 0
  /\ ret[2] = 0
  /\ heap[call.inputs[2]].node["g"] = "none"

InCheck(proc) == Len(stack) >= 2 /\ stack[2].proc = proc
InDBO == call.proc = "CheckBackward" /\ InCheck("CheckDoubleBackpropOption")
InCBC == call.proc = "CheckBackward" /\ InCheck("CheckBackwardComputation")
ToggleMsg == "double backprop option"
BothRuns ==
  <<"open", "check",
    "isolate", "forward", "clear", "backward", "harvest", "scan",
    "isolate", "forward", "clear", "backward", "harvest", "scan">>

\* the gradients of the run that ended which the toggle forbids: connected
\* to the graph in the disabled run, not connected in the enabled run
Forbidden(m) ==
  {i \in DOMAIN ret : ret[i] # 0 /\ ((heap[ret[i]].node["g"] # "none") <=> (m = "disable"))}
ReportOf(m) ==
  LET F == SetToSeq(Forbidden(m))
  IN [k \in DOMAIN F |-> [run |-> m, i |-> F[k] - 1, of |-> Len(ret)]]

C3_States ==
  /\ (InDBO /\ Len(stack) = 3)
       => /\ err = NoErr
          /\ \A i \in DOMAIN Top.inputs :
               /\ Top.inputs[i] > stack[2].base
               /\ heap[Top.inputs[i]].tag = "view"
               /\ heap[Top.inputs[i]].node["g"] \in {"none", "leaf"}
               /\ Top.pc \in {"leaf", "forward"} => heap[Top.inputs[i]].grad["g"] = 0
  /\ (InDBO /\ stack[2].pc = "enable_scan")
       => \A e \in Range(stack[2].fail) : e.run = "disable"
  /\ (InDBO /\ stack[2].pc = "finish") => TraceEvs = BothRuns
  /\ (InDBO /\ err # NoErr)
       => /\ stack[2].pc = "finish"
          /\ stack[2].fail # <<>>
          /\ err = GradientCheckError(ToggleMsg, stack[2].fail)

C3_Steps ==
  /\ \A m \in {"disable", "enable"} :
       (InDBO /\ Len(stack) = 2 /\ stack[2].pc = ScanPc(m) /\ stack' # stack)
         => /\ stack'[2].fail = stack[2].fail \o ReportOf(m)
            /\ stack'[2].pc = AfterScanPc(m)
            /\ err' = NoErr
  /\ (InDBO /\ stack[2].pc = "finish" /\ err = NoErr /\ stack[2].fail = <<>>)
       => (err' = NoErr /\ stack' \in {stack, Pop})

\* C3: CheckDoubleBackpropOption always performs both extraction runs, the
\* disabled one and then the enabled one, each on freshly isolated views, also
\* when the disabled run recorded a failure; it raises one aggregated error if
\* and only if a gradient of the disabled run requires gradient or a gradient
\* of the enabled run does not, and the report holds one entry for every such
\* gradient of both runs.
C3_BothRunsOneAggregatedReport == [](C3_States) /\ [][C3_Steps]_vars

\* C3 witness: the aggregated error raised with an entry of the disabled run
\* together with entries of the enabled run.
C3_Witness ==
  /\ InDBO
  /\ err.msg = ToggleMsg
  /\ Len(err.at) >= 3
  /\ err.at[1].run = "disable"
  /\ err.at[Len(err.at)].run = "enable"

NumericalMsg == "numerical error in backward"
ReportedIndices == {err.at[k].idx + 1 : k \in DOMAIN err.at}
NotClose(f) == {i \in DOMAIN f.grads : f.grads[i] # 0 /\ ~f.close[i]}

C4_States ==
  /\ (InCBC /\ stack[2].pc = "report")
       => /\ DOMAIN stack[2].close = {i \in DOMAIN stack[2].grads : stack[2].grads[i] # 0}
          /\ Range(stack[2].fail) = NotClose(stack[2])
          /\ Len(stack[2].fail) = Cardinality(NotClose(stack[2]))
          /\ err # NoErr => (err.msg = NumericalMsg /\ NotClose(stack[2]) # {})
  /\ (InCBC /\ err.msg = NumericalMsg)
       => /\ stack[2].pc = "report"
          /\ ReportedIndices = NotClose(stack[2])
          /\ Len(err.at) = Cardinality(NotClose(stack[2]))

C4_Steps ==
  (InCBC /\ Len(stack) = 2 /\ stack[2].pc = "report" /\ err = NoErr /\ stack' # stack)
    => /\ NotClose(stack[2]) = {}
       /\ stack' = Pop
       /\ err' = NoErr

\* C4: once the shape and dtype validation has passed,
\* CheckBackwardComputation raises the numerical-error report if and only if
\* some input has an analytic gradient that is not all-close to the numerical
\* one; the report lists exactly those indices; an input without an analytic
\* gradient is neither compared nor reported.
C4_ReportListsExactlyFailedIndices == [](C4_States) /\ [][C4_Steps]_vars

\* C4 witness: a report that lists the second input only, the first input
\* having produced no analytic gradient.
C4_Witness ==
  /\ InCBC
  /\ err.msg = NumericalMsg
  /\ Len(stack[2].grads) = 2
  /\ stack[2].grads[1] = 0
  /\ ReportedIndices = {2}

InCB == call.proc = "CheckBackward"
C9_Views ==
  (InCB /\ Len(stack) = 3 /\ Top.pc = "leaf")
    => /\ Len(Top.inputs) = Len(call.inputs)
       /\ \A i \in DOMAIN call.inputs :
            LET v == heap[Top.inputs[i]]
                o == heap[call.inputs[i]]
            IN /\ Top.inputs[i] \notin Range(call.inputs)
               /\ \A j \in DOMAIN call.inputs : j # i => Top.inputs[j] # Top.inputs[i]
               /\ \A x \in Graphs :
                    /\ (v.node[x] # "none") <=> (o.node[x] # "none")
                    /\ v.node[x] # "op"
                    /\ v.grad[x] = 0

C9_OriginalsUntouched ==
  InCB => \A i \in DOMAIN call.inputs : heap'[call.inputs[i]] = heap[call.inputs[i]]

\* C9: DisconnectInputArrays returns for every input a new handle that
\* requires gradient under exactly the graph ids the original carries a node
\* of, is a leaf under each of them and has empty gradient slots; the
\* originals' nodes, leaf status and gradient slots never change, so no
\* seeding, clearing or backward step of CheckBackward writes them.
C9_IsolationLeavesOriginalsUntouched == [](C9_Views) /\ [][C9_OriginalsUntouched]_vars

\* C9 witness: the backward engine has written the gradient slot of the view
\* of an original that is a non-leaf and holds a gradient of its own.
C9_Witness ==
  /\ InCB
  /\ Len(stack) = 3
  /\ Top.pc = "harvest"
  /\ heap[call.inputs[1]].node["g"] = "op"
  /\ heap[call.inputs[1]].grad["g"] # 0
  /\ heap[Top.inputs[1]].grad["g"] # 0
  /\ heap[Top.inputs[1]].grad["g"] # heap[call.inputs[1]].grad["g"]

InCDB == call.proc = "CheckDoubleBackwardComputation"
CountMsg == "number of input arrays and grad_grad_input arrays do not match"
InputNotDiffMsg == "input array is not differentiable"
SeedNotDiffMsg == "output gradient array is not differentiable"
\* some caller-supplied input or first-order seed does not require gradient
SomeArgumentNotDifferentiable ==
  \E a \in Range(call.inputs) \cup Range(call.seeds.arr) : heap[a].node["g"] = "none"
NoCollaboratorRan ==
  \A e \in {"forward", "estimator", "backward", "allclose"} : ~Happened(e)

\* C6 as stated: whenever an input or a first-order seed does not require
\* gradient, the run ends with the "not differentiable" error, and no forward
\* function, estimator, backward engine or all-close comparison is invoked.
C6_Original ==
  (InCDB /\ SomeArgumentNotDifferentiable)
    => /\ NoCollaboratorRan
       /\ err # NoErr => err.msg \in {InputNotDiffMsg, SeedNotDiffMsg}
       /\ stack = <<>> => err # NoErr

\* C6 amended: when the number of second-order seeds equals the number of
\* inputs and an input or a first-order seed does not require gradient, the
\* run ends with the "not differentiable" precondition error (the inputs are
\* examined before the seeds, the lowest offending index is named); when the
\* numbers differ, the count error is raised instead; in both cases no
\* forward function, estimator, backward engine or all-close comparison is
\* invoked.
C6_NotDifferentiableRaisedFirst ==
  (InCDB /\ SomeArgumentNotDifferentiable)
    => /\ NoCollaboratorRan
       /\ stack = <<>> => err # NoErr
       /\ err # NoErr =>
            /\ err.kind = "XchainerError"
            /\ IF Len(call.gg) # Len(call.inputs) THEN err.msg = CountMsg
               ELSE IF \E i \in DOMAIN call.inputs : heap[call.inputs[i]].node["g"] = "none"
               THEN /\ err.msg = InputNotDiffMsg
                    /\ heap[call.inputs[err.at[1] + 1]].node["g"] = "none"
                    /\ \A i \in 1..err.at[1] : heap[call.inputs[i]].node["g"] # "none"
               ELSE /\ err.msg = SeedNotDiffMsg
                    /\ heap[call.seeds.arr[err.at[1] + 1]].node["g"] = "none"
                    /\ \A i \in 1..err.at[1] : heap[call.seeds.arr[i]].node["g"] # "none"

\* C6 witness: every input requires gradient, the second first-order seed does
\* not, and the run has ended with the error naming that seed.
C6_Witness ==
  /\ InCDB
  /\ stack = <<>>
  /\ \A a \in Range(call.inputs) : heap[a].node["g"] # "none"
  /\ err.msg = SeedNotDiffMsg
  /\ err.at = <<1>>
  /\ trace # <<>>

ShapeMsg == "shape of input gradient"
DtypeMsg == "dtype of input gradient"
Numerical2Msg == "numerical error in double backward"
MissingMsg == "second order gradient is missing"
SizeMsg == "size of grad outputs must be same"
LeakMsg == "array bodies not freed"
InImpl == InCDB /\ InCheck("CheckDoubleBackwardComputationImpl")
NamedIndices == {err.at[k] + 1 : k \in DOMAIN err.at}
\* the inputs whose analytic gradient differs from the input in shape or dtype
Mismatching(f) ==
  {i \in DOMAIN f.grads :
      /\ f.grads[i] # 0
      /\ \/ heap[f.grads[i]].shape # heap[f.inputs[i]].shape
         \/ heap[f.grads[i]].dtype # heap[f.inputs[i]].dtype}
LowestOf(S) == {i \in S : \A j \in S : i <= j}
NotClose2(f) == {i \in DOMAIN f.grads : ~f.close[i]}
Missing2(f) == {i \in DOMAIN f.grads : f.grads[i] = 0}

\* what is common to C7 as stated and as amended: tolerance violations of the
\* first- and of the second-order check and missing second-order gradients
\* are reported for every failing index in one error; the aliasing
\* precondition names the first aliased pair only
C7_Aggregated ==
  /\ (InCBC /\ err.msg = NumericalMsg)
       => (ReportedIndices = NotClose(stack[2]) /\ Len(err.at) = Cardinality(NotClose(stack[2])))
  /\ (InImpl /\ stack[2].pc = "report")
       => Range(stack[2].fail) = NotClose2(stack[2])
  /\ (InImpl /\ err.msg = Numerical2Msg)
       => (ReportedIndices = NotClose2(stack[2]) /\ Len(err.at) = Cardinality(NotClose2(stack[2])))
  /\ (InImpl /\ err.msg = MissingMsg)
       => (NamedIndices = Missing2(stack[2]) /\ Len(err.at) = Cardinality(Missing2(stack[2])))
  /\ (DirectBG /\ err.msg = IdenticalMsg)
       => /\ Len(err.at) = 2
          /\ obs.outputs[err.at[2]] = call.inputs[err.at[1]]
          /\ \A i \in 1..(err.at[1] - 1), j \in DOMAIN obs.outputs :
               obs.outputs[j] = call.inputs[i] => heap[call.inputs[i]].node["g"] = "none"

\* C7 as stated: shape and dtype mismatches, too, are reported for every
\* mismatching index.
C7_Original ==
  /\ C7_Aggregated
  /\ (InCBC /\ err.msg \in {ShapeMsg, DtypeMsg}) => NamedIndices = Mismatching(stack[2])

\* C7 amended: tolerance violations (first and second order) and missing
\* second-order gradients are aggregated into one report covering every
\* failing index; a shape or dtype mismatch of an analytic gradient is raised
\* for the lowest mismatching index only (shape before dtype), like a
\* precondition violation.
C7_AggregatedExceptShapeAndDtype ==
  /\ C7_Aggregated
  /\ (InCBC /\ err.msg \in {ShapeMsg, DtypeMsg})
       => /\ Len(err.at) = 1
          /\ NamedIndices = LowestOf(Mismatching(stack[2]))
          /\ err.msg = ShapeMsg
               <=> heap[stack[2].grads[err.at[1] + 1]].shape
                     # heap[stack[2].inputs[err.at[1] + 1]].shape

\* C7 witness: the second-order comparison failed for several indices and
\* one report lists them all.
C7_Witness ==
  /\ InImpl
  /\ err.msg = Numerical2Msg
  /\ Cardinality(NotClose2(stack[2])) >= 2
  /\ \E i \in DOMAIN stack[2].grads : stack[2].close[i]

PreconditionMsgs == {"inputs must be leaf nodes", IdenticalMsg, SizeMsg, InputNotDiffMsg, SeedNotDiffMsg}
SecondOrderPreconditionMsgs == {CountMsg, InputNotDiffMsg, SeedNotDiffMsg}
ExtractionPreconditionMsgs == {"inputs must be leaf nodes", IdenticalMsg, SizeMsg}
CheckFailureMsgs ==
  {NumericalMsg, Numerical2Msg, ShapeMsg, DtypeMsg, ToggleMsg, MissingMsg, LeakMsg,
   "number of input gradients", "number of first-order input gradients",
   "first-order input gradient does not exist",
   "first-order input gradient is not differentiable"}

\* C8 as stated: a precondition violation never carries the error kind that
\* check failures carry.
C8_Original ==
  /\ err.msg \in CheckFailureMsgs => err.kind = "GradientCheckError"
  /\ err.msg \in PreconditionMsgs => err.kind = "XchainerError"

\* C8 amended: every raised error is of one of two kinds; the preconditions
\* of the second-order check (second-order seed count, inputs and first-order
\* seeds requiring gradient) carry the kind XchainerError; every check
\* failure and also the preconditions of the extraction (non-leaf input,
\* aliased input/output, grad-output count) carry the kind
\* GradientCheckError.
C8_TwoKindsSplitAtSecondOrderPreconditions ==
  err # NoErr
    => \/ err.kind = "XchainerError" /\ err.msg \in SecondOrderPreconditionMsgs
       \/ err.kind = "GradientCheckError"
            /\ err.msg \in CheckFailureMsgs \cup ExtractionPreconditionMsgs

\* C8 witness: the second-order check has ended with the error for an input
\* that does not require gradient.
C8_Witness ==
  /\ InCDB
  /\ stack = <<>>
  /\ err.kind = "XchainerError"
  /\ err.msg = InputNotDiffMsg

ScopeEvs == SelectSeq(TraceEvs, LAMBDA e : e \in {"open", "check", "close", "assert"})
FullBlock == <<"open", "check", "close", "assert">>
CutBlock == <<"open", "check", "close">>
ViaEntryPoint == InCB \/ InCDB
Last(s) == s[Len(s)]

\* what is common to C5 as stated and as amended: the check runs inside the
\* open scope, every opened scope is closed (also by a raising check), and an
\* assertion that is made raises exactly when bodies survive
C5_Scoped ==
  /\ (ViaEntryPoint /\ Len(stack) >= 2) => (tracker.open /\ stack[1].scoped)
  /\ (ViaEntryPoint /\ stack # <<>> /\ ~stack[1].scoped) => ~tracker.open
  /\ (ViaEntryPoint /\ stack = <<>>) => ~tracker.open
  /\ (ViaEntryPoint /\ ScopeEvs # <<>> /\ Last(ScopeEvs) = "assert")
       => (err.msg = LeakMsg <=> tracker.kept + (Len(heap) - tracker.base) > 0)
  /\ (ViaEntryPoint /\ err.msg = LeakMsg) => Last(ScopeEvs) = "assert"

\* C5 as stated: every scope that was closed, also one closed by a raising
\* check, is followed by the assertion on its tracker.
C5_Original ==
  /\ C5_Scoped
  /\ (ViaEntryPoint /\ stack = <<>>) => ScopeEvs \in {FullBlock, FullBlock \o FullBlock}

\* C5 amended: every opened scope is closed again, also when the check inside
\* it raises, and the check runs between the open and the close; the
\* assertion on the tracker is made after a scope that was closed by the
\* check returning, and raises iff a body survives; when the check raises,
\* the scope is closed by the unwinding, no assertion is made and (in
\* CheckBackward) the second scope is never opened.
C5_ScopeClosedAssertAfterNormalReturn ==
  /\ C5_Scoped
  /\ (ViaEntryPoint /\ stack = <<>>)
       => IF err = NoErr
          THEN ScopeEvs = (IF InCB THEN FullBlock \o FullBlock ELSE FullBlock)
          ELSE IF err.msg = LeakMsg
          THEN ScopeEvs \in (IF InCB THEN {FullBlock, FullBlock \o FullBlock} ELSE {FullBlock})
          ELSE ScopeEvs \in (IF InCB THEN {CutBlock, FullBlock \o CutBlock} ELSE {CutBlock})

\* C5 witness: CheckBackward has ended with the toggle check's error; the
\* scope was opened and closed and no assertion followed.
C5_Witness ==
  /\ InCB
  /\ stack = <<>>
  /\ err.msg = ToggleMsg
  /\ ScopeEvs = CutBlock

LeafMsg == "inputs must be leaf nodes"
ExtractionForCB == InCB /\ Len(stack) = 3 /\ stack[3].proc = "BackwardGradients"
\* the events since the last isolation
SinceIsolate ==
  LET I == {k \in DOMAIN TraceEvs : TraceEvs[k] = "isolate"}
      last == CHOOSE k \in I : \A j \in I : j <= k
  IN SubSeq(TraceEvs, last + 1, Len(TraceEvs))

\* C11: every BackwardGradients call made for CheckBackward, from
\* CheckDoubleBackpropOption and from CheckBackwardComputation, receives only
\* freshly isolated handles that are leaves, so CheckBackward never raises the
\* leaf-violation error: also with a caller-supplied non-leaf input the leaf
\* check passes and the forward function is run.
C11_LeafErrorUnreachableFromCheckBackward ==
  /\ InCB => err.msg # LeafMsg
  /\ ExtractionForCB
       => /\ stack[2].proc \in {"CheckDoubleBackpropOption", "CheckBackwardComputation"}
          /\ Len(stack[3].inputs) = Len(call.inputs)
          /\ \A i \in DOMAIN stack[3].inputs :
               /\ stack[3].inputs[i] > stack[2].base
               /\ stack[3].inputs[i] \notin Range(call.inputs)
               /\ heap[stack[3].inputs[i]].node["g"] # "op"
          /\ stack[3].pc \in {"leaf", "forward"} => (err = NoErr /\ SinceIsolate = <<>>)
          /\ stack[3].pc \notin {"leaf", "forward"}
               => (SinceIsolate # <<>> /\ SinceIsolate[1] = "forward")
  /\ (InCB /\ Len(stack) = 2 /\ err = NoErr
        /\ stack[2].pc \in {"disable_scan", "enable_scan", "count"})
       => (SinceIsolate # <<>> /\ SinceIsolate[1] = "forward")

\* C11 witness: CheckBackwardComputation's extraction has run the forward
\* function although the caller's first input is a non-leaf.
C11_Witness ==
  /\ ExtractionForCB
  /\ stack[2].proc = "CheckBackwardComputation"
  /\ heap[call.inputs[1]].node["g"] = "op"
  /\ stack[3].pc = "alias"
  /\ err = NoErr
  /\ Happened("forward")

====
